---- MODULE Spec2Model ----
(***************************************************************************)
(* The subscription entitlement engine of the digital library: the user's  *)
(* entitlement fields (models/User.js), the quota gate of the read and     *)
(* download routes (routes/books.js), the admin's grant and cancel routes  *)
(* (admin routes) and the hourly expiry job (server).                      *)
(***************************************************************************)
EXTENDS Integers, Sequences, FiniteSets, TLC

(* ------------------------------ bounds --------------------------------- *)

\* Content ids are 1..NumBooks: one more than the basic download limit, so that
\* a full basic download list still meets an id it does not hold.
NumBooks == 6

\* The longest id list a bulk request carries.
MaxIds == 2

\* The clock stops advancing at MaxNow.
MaxNow == 31

\* The most subscription requests the collection holds.
MaxRequests == 2

\* The gate calls in flight at once in the interleaved runs.
NumCalls == 3

\* The longest string over the two-letter alphabet handed to the scorer.
MaxLen == 5

\* The books the catalog holds at most.
MaxCatalog == 2

(* ------------------------------ constants ------------------------------ *)

\* Time is counted in days: 30 * 24 * 60 * 60 * 1000 ms is 30.
PERIOD == 30

\* A Date field that is not set (undefined in the document).
NoDate == 0 - 1

Books == 1..NumBooks

\* Ids a request may name: 1 is a registered user, 2 matches no user.
UserIds == {1, 2}

Registered == {1}

Plans == {"basic", "premium"}

Types == {"read", "download"}

\* The instants the clock visits: around one and two periods after 0 and 1.
Instants == {t \in {0, 1, PERIOD, PERIOD + 1, PERIOD + 2, 2 * PERIOD + 1} : t <= MaxNow}

VARIABLES
    users,     \* the users collection: _id -> entitlement fields of the document
    requests,  \* the subscription requests collection, in creation order; _id is the index
    calls,     \* the gate calls in flight: where each is, what it loaded and decided
    now,       \* the wall clock (new Date())
    last,      \* the last operation completed: its name, inputs and response
    books      \* the books collection, in creation order

vars == <<users, requests, calls, now, last, books>>

(* ------------------------------ the user document ---------------------- *)

\* The schema's defaults: plan and status 'none', no dates, empty arrays.
NewUser ==
    [ subscription_plan |-> "none",
      subscription_status |-> "none",
      subscription_start |-> NoDate,
      subscription_end |-> NoDate,
      period_started_at |-> NoDate,
      read_books_in_period |-> << >>,
      downloaded_books_in_period |-> << >> ]

Has(arr, id) == \E i \in 1..Len(arr) : arr[i] = id

(* ------------------------------ the quota gate ------------------------- *)

MsgNotFound == "User not found"
MsgInactive == "Subscription inactive or expired. Please contact admin to renew."
MsgNoPlan == "No active plan. Please subscribe."
MsgReadLimit == "Read limit reached for this period."
MsgDownloadLimit == "Download limit reached for this period."

\* A faulty variant: the window is over as soon as PERIOD has passed.
shouldReset_ge(user, t) ==
    LET start == IF user.period_started_at # NoDate
                 THEN user.period_started_at
                 ELSE user.subscription_start
    IN  start = NoDate \/ (t - start) >= PERIOD

\* The reset test: the window's start is period_started_at, or subscription_start
\* when that is not set; the window is over when neither is set or more than
\* PERIOD has passed.
shouldReset(user, t) ==
    LET start == IF user.period_started_at # NoDate
                 THEN user.period_started_at
                 ELSE user.subscription_start
    IN  start = NoDate \/ (t - start) > PERIOD

\* A faulty variant: the arrays are emptied but the window does not restart.
resetPeriodIfNeeded_noStamp(user, t) ==
    IF shouldReset(user, t)
    THEN [user EXCEPT !.read_books_in_period = << >>,
                      !.downloaded_books_in_period = << >>]
    ELSE user

\* A faulty variant: the window restarts but the arrays are kept.
resetPeriodIfNeeded_keepUsage(user, t) ==
    IF shouldReset(user, t) THEN [user EXCEPT !.period_started_at = t] ELSE user

resetPeriodIfNeeded(user, t) ==
    IF shouldReset(user, t)
    THEN [user EXCEPT !.period_started_at = t,
                      !.read_books_in_period = << >>,
                      !.downloaded_books_in_period = << >>]
    ELSE user

\* A faulty variant: a plan it does not know gets the basic allowance.
getPlanLimits_open(plan) ==
    IF plan = "premium" THEN [maxReads |-> 100, maxDownloads |-> 25]
    ELSE IF plan = "none" THEN [maxReads |-> 0, maxDownloads |-> 0]
    ELSE [maxReads |-> 10, maxDownloads |-> 5]

getPlanLimits(plan) ==
    IF plan = "premium" THEN [maxReads |-> 100, maxDownloads |-> 25]
    ELSE IF plan = "basic" THEN [maxReads |-> 10, maxDownloads |-> 5]
    ELSE [maxReads |-> 0, maxDownloads |-> 0]

\* A faulty variant: the stored status is trusted, the end date is not compared.
inactive_noEnd(user, t) ==
    \/ user.subscription_status # "active"
    \/ user.subscription_end = NoDate

\* A faulty variant: access goes on for a day after the end date.
inactive_grace(user, t) ==
    \/ user.subscription_status # "active"
    \/ user.subscription_end = NoDate
    \/ user.subscription_end + 1 < t

\* The validity test of the gate: TRUE when the request is turned away as inactive.
inactive(user, t) ==
    \/ user.subscription_status # "active"
    \/ user.subscription_end = NoDate
    \/ user.subscription_end < t

\* Faulty variants: the comparison is strict; a repeat is not let through.
overLimit_gt(arr, bookId, max) == ~Has(arr, bookId) /\ Len(arr) > max

overLimit_noRepeat(arr, bookId, max) == Len(arr) >= max

\* The quota test on one usage array: TRUE when the request is turned away.
overLimit(arr, bookId, max) == ~Has(arr, bookId) /\ Len(arr) >= max

\* A faulty variant: the id is never recorded.
consumed_noPush(arr, bookId) == arr

\* The array after the gate let the request through.
consumed(arr, bookId) == IF Has(arr, bookId) THEN arr ELSE Append(arr, bookId)

\* A faulty variant: the call without a plan saves the document it reset.
gate_saveOnNoPlan(user, bookId, type, t) ==
    IF inactive(user, t)
    THEN [ok |-> FALSE, message |-> MsgInactive, doc |-> user, save |-> FALSE]
    ELSE LET u1 == resetPeriodIfNeeded(user, t)
             limits == getPlanLimits(u1.subscription_plan)
         IN  IF limits.maxReads = 0 /\ limits.maxDownloads = 0
             THEN [ok |-> FALSE, message |-> MsgNoPlan, doc |-> u1, save |-> TRUE]
             ELSE IF type = "read"
             THEN IF overLimit(u1.read_books_in_period, bookId, limits.maxReads)
                  THEN [ok |-> FALSE, message |-> MsgReadLimit, doc |-> u1, save |-> FALSE]
                  ELSE [ok |-> TRUE, message |-> "", save |-> TRUE,
                        doc |-> [u1 EXCEPT !.read_books_in_period = consumed(@, bookId)]]
             ELSE IF overLimit(u1.downloaded_books_in_period, bookId, limits.maxDownloads)
                  THEN [ok |-> FALSE, message |-> MsgDownloadLimit, doc |-> u1, save |-> FALSE]
                  ELSE [ok |-> TRUE, message |-> "", save |-> TRUE,
                        doc |-> [u1 EXCEPT !.downloaded_books_in_period = consumed(@, bookId)]]

\* The synchronous part of the gate on a loaded document: the response, the
\* document in memory at the return, and whether save() is reached.
gate(user, bookId, type, t) ==
    IF inactive(user, t)
    THEN [ok |-> FALSE, message |-> MsgInactive, doc |-> user, save |-> FALSE]
    ELSE LET u1 == resetPeriodIfNeeded(user, t)
             limits == getPlanLimits(u1.subscription_plan)
         IN  IF limits.maxReads = 0 /\ limits.maxDownloads = 0
             THEN [ok |-> FALSE, message |-> MsgNoPlan, doc |-> u1, save |-> FALSE]
             ELSE IF type = "read"
             THEN IF overLimit(u1.read_books_in_period, bookId, limits.maxReads)
                  THEN [ok |-> FALSE, message |-> MsgReadLimit, doc |-> u1, save |-> FALSE]
                  ELSE [ok |-> TRUE, message |-> "", save |-> TRUE,
                        doc |-> [u1 EXCEPT !.read_books_in_period = consumed(@, bookId)]]
             ELSE IF overLimit(u1.downloaded_books_in_period, bookId, limits.maxDownloads)
                  THEN [ok |-> FALSE, message |-> MsgDownloadLimit, doc |-> u1, save |-> FALSE]
                  ELSE [ok |-> TRUE, message |-> "", save |-> TRUE,
                        doc |-> [u1 EXCEPT !.downloaded_books_in_period = consumed(@, bookId)]]

\* A faulty variant: a call that finds the status stale stores the correction.
ensureActiveAndWithinLimits_writeBack(db, userId, bookId, type, t) ==
    IF userId \notin DOMAIN db
    THEN [ok |-> FALSE, message |-> MsgNotFound, db |-> db, doc |-> NewUser]
    ELSE LET g == gate(db[userId], bookId, type, t)
         IN  [ok |-> g.ok, message |-> g.message, doc |-> g.doc,
              db |-> IF g.save THEN [db EXCEPT ![userId] = g.doc]
                     ELSE IF g.message = MsgInactive
                              /\ db[userId].subscription_status = "active"
                     THEN [db EXCEPT ![userId].subscription_status = "expired"]
                     ELSE db]

\* One whole call with nothing in between: the response and the collection after it.
ensureActiveAndWithinLimits(db, userId, bookId, type, t) ==
    IF userId \notin DOMAIN db
    THEN [ok |-> FALSE, message |-> MsgNotFound, db |-> db, doc |-> NewUser]
    ELSE LET g == gate(db[userId], bookId, type, t)
         IN  [ok |-> g.ok, message |-> g.message, doc |-> g.doc,
              db |-> IF g.save THEN [db EXCEPT ![userId] = g.doc] ELSE db]

(* ------------------------------ grant and cancel ----------------------- *)

\* Faulty variants: the usage arrays are kept; the end date is kept.
granted_keepUsage(user, plan, t) ==
    [user EXCEPT !.subscription_plan = plan,
                 !.subscription_status = "active",
                 !.subscription_start = t,
                 !.subscription_end = t + PERIOD,
                 !.period_started_at = t]

granted_keepEnd(user, plan, t) ==
    [user EXCEPT !.subscription_plan = plan,
                 !.subscription_status = "active",
                 !.subscription_start = t,
                 !.period_started_at = t,
                 !.read_books_in_period = << >>,
                 !.downloaded_books_in_period = << >>]

\* The fields a grant writes (approve, direct grant and bulk grant write the same).
granted(user, plan, t) ==
    [user EXCEPT !.subscription_plan = plan,
                 !.subscription_status = "active",
                 !.subscription_start = t,
                 !.subscription_end = t + PERIOD,
                 !.period_started_at = t,
                 !.read_books_in_period = << >>,
                 !.downloaded_books_in_period = << >>]

\* A faulty variant: a cancel also empties the usage arrays.
cancelled_clears(user, t) ==
    [user EXCEPT !.subscription_status = "expired",
                 !.subscription_plan = "none",
                 !.subscription_end = t,
                 !.read_books_in_period = << >>,
                 !.downloaded_books_in_period = << >>]

\* The fields a cancel writes (single and bulk write the same).
cancelled(user, t) ==
    [user EXCEPT !.subscription_status = "expired",
                 !.subscription_plan = "none",
                 !.subscription_end = t]

\* A faulty variant: the job also revives the documents it finds expired.
swept_renews(user, t) ==
    IF user.subscription_status = "active" /\ user.subscription_end # NoDate
                                           /\ user.subscription_end < t
    THEN [user EXCEPT !.subscription_status = "expired"]
    ELSE IF user.subscription_status = "expired"
    THEN [user EXCEPT !.subscription_status = "active"]
    ELSE user

\* A faulty variant: the job's filter leaves out the end date.
swept_noEnd(user, t) ==
    IF user.subscription_status = "active"
    THEN [user EXCEPT !.subscription_status = "expired"]
    ELSE user

\* A faulty variant: the job's update changes nothing.
swept_never(user, t) == user

\* A faulty variant: the job also takes the plan from documents it finds expired.
swept_demote(user, t) ==
    IF user.subscription_status = "active" /\ user.subscription_end # NoDate
                                           /\ user.subscription_end < t
    THEN [user EXCEPT !.subscription_status = "expired"]
    ELSE IF user.subscription_status = "expired"
    THEN [user EXCEPT !.subscription_plan = "none"]
    ELSE user

\* A faulty variant: the bulk grant's $set leaves out period_started_at.
bulkGranted_noPeriod(user, plan, t) ==
    [user EXCEPT !.subscription_plan = plan,
                 !.subscription_status = "active",
                 !.subscription_start = t,
                 !.subscription_end = t + PERIOD,
                 !.read_books_in_period = << >>,
                 !.downloaded_books_in_period = << >>]

\* The $set of the bulk grant's updateMany on one matched document.
bulkGranted(user, plan, t) ==
    [ subscription_plan |-> plan,
      subscription_status |-> "active",
      subscription_start |-> t,
      subscription_end |-> t + PERIOD,
      period_started_at |-> t,
      read_books_in_period |-> << >>,
      downloaded_books_in_period |-> << >> ]

\* The $set of the bulk cancel's updateMany on one matched document.
bulkCancelled(user, t) ==
    [ subscription_plan |-> "none",
      subscription_status |-> "expired",
      subscription_start |-> user.subscription_start,
      subscription_end |-> t,
      period_started_at |-> user.period_started_at,
      read_books_in_period |-> user.read_books_in_period,
      downloaded_books_in_period |-> user.downloaded_books_in_period ]

\* The hourly job's filter and update on one document.
swept(user, t) ==
    IF user.subscription_status = "active" /\ user.subscription_end # NoDate
                                           /\ user.subscription_end < t
    THEN [user EXCEPT !.subscription_status = "expired"]
    ELSE user

\* updateMany({_id: {$in: ids}}, ...): every document whose id is listed.
InIds(ids, u) == \E i \in 1..Len(ids) : ids[i] = u

IdLists == UNION {[1..n -> UserIds] : n \in 1..MaxIds}



(* ------------------------------ the request queue ---------------------- *)

\* The note of a submit: left out (or null), or a text.
NoNote == "(no note)"

NoteInputs == {NoNote, "please"}

\* A request as create({user, plan, note: value.note || ''}) stores it: status
\* defaults to 'pending', processed_at is unset.
NewRequest(u, plan, note) ==
    [user |-> u, plan |-> plan, status |-> "pending", processed_at |-> NoDate,
     note |-> IF note = NoNote THEN "" ELSE note, createdAt |-> now]

\* A faulty variant: the lookup never finds the pending request.
findPending_none(reqs, u, plan) == 0 * Len(reqs)

\* findOne({user, plan, status: 'pending'}): the first match's _id, 0 when none.
findPending(reqs, u, plan) ==
    LET S == {i \in 1..Len(reqs) : /\ reqs[i].user = u
                                   /\ reqs[i].plan = plan
                                   /\ reqs[i].status = "pending"}
    IN  IF S = {} THEN 0 ELSE CHOOSE i \in S : \A j \in S : i <= j

\* reqDoc.status = 'processed'; reqDoc.processed_at = new Date()
processed(req, t) == [req EXCEPT !.status = "processed", !.processed_at = t]

RequestIds == 1..MaxRequests

(* ------------------------------ the state machine ---------------------- *)

Callers == 1..NumCalls

Idle == [pc |-> "idle"]

NoOp == [op |-> "init"]

\* Every user is newly registered; no request, no call in flight.
Init ==
    /\ users = [u \in Registered |-> NewUser]
    /\ requests = << >>
    /\ books = << >>
    /\ calls = [p \in Callers |-> Idle]
    /\ now = 0
    /\ last = NoOp

usage(user, type) ==
    IF type = "read" THEN user.read_books_in_period ELSE user.downloaded_books_in_period

\* Content ids are interchangeable: a request names the array's first id (a
\* repeat) or one of the n least ids the array does not hold (a new one).
Inputs(arr, n) ==
    {b \in 1..(Len(arr) + n) : ~Has(arr, b)} \cup (IF arr = << >> THEN {} ELSE {arr[1]})

\* GET /read/:id and GET /download/:id, through the gate, as one step.
CheckAndConsume(u, b, type) ==
    LET r == ensureActiveAndWithinLimits(users, u, b, type, now)
    IN  /\ users' = r.db
        /\ last' = [op |-> "consume", uid |-> u, book |-> b, type |-> type,
                    ok |-> r.ok, message |-> r.message,
                    pre |-> IF u \in DOMAIN users THEN users[u] ELSE NewUser,
                    doc |-> r.doc]
        /\ UNCHANGED <<requests, calls, now, books>>

\* A read or download request of user u for some content id up to cap.
Access(u, type, cap) ==
    \E b \in (IF u \in DOMAIN users THEN Inputs(usage(users[u], type), 1) ELSE {1}) :
        b <= cap /\ CheckAndConsume(u, b, type)

\* POST /users/:id/subscription
Grant(u, plan) ==
    /\ IF u \in DOMAIN users
       THEN /\ users' = [users EXCEPT ![u] = granted(@, plan, now)]
            /\ last' = [op |-> "grant", uid |-> u, plan |-> plan, status |-> 200]
       ELSE /\ users' = users
            /\ last' = [op |-> "grant", uid |-> u, plan |-> plan, status |-> 404]
    /\ UNCHANGED <<requests, calls, now, books>>

\* POST /users/:id/subscription/cancel
Cancel(u) ==
    /\ IF u \in DOMAIN users
       THEN /\ users' = [users EXCEPT ![u] = cancelled(@, now)]
            /\ last' = [op |-> "cancel", uid |-> u, status |-> 200]
       ELSE /\ users' = users
            /\ last' = [op |-> "cancel", uid |-> u, status |-> 404]
    /\ UNCHANGED <<requests, calls, now, books>>

\* POST /users/bulk/subscription, action 'grant'
BulkGrant(ids, plan) ==
    /\ users' = [u \in DOMAIN users |->
                    IF InIds(ids, u) THEN bulkGranted(users[u], plan, now) ELSE users[u]]
    /\ last' = [op |-> "bulkGrant", ids |-> ids, plan |-> plan, count |-> Len(ids)]
    /\ UNCHANGED <<requests, calls, now, books>>

\* POST /users/bulk/subscription, action 'cancel'
BulkCancel(ids) ==
    /\ users' = [u \in DOMAIN users |->
                    IF InIds(ids, u) THEN bulkCancelled(users[u], now) ELSE users[u]]
    /\ last' = [op |-> "bulkCancel", ids |-> ids, count |-> Len(ids)]
    /\ UNCHANGED <<requests, calls, now, books>>

\* The hourly job.
Sweep ==
    /\ users' = [u \in DOMAIN users |-> swept(users[u], now)]
    /\ last' = [op |-> "sweep"]
    /\ UNCHANGED <<requests, calls, now, books>>

\* A cycle of the job whose updateMany throws: the error is logged, nothing is
\* written, and the timer stays set.
SweepFail ==
    /\ last' = [op |-> "sweepFailed"]
    /\ UNCHANGED <<users, requests, calls, now, books>>

\* Time passes, to a later instant of S.
Tick(S) ==
    /\ \E t \in S : t > now /\ now' = t
    /\ last' = [op |-> "tick"]
    /\ UNCHANGED <<users, requests, calls, books>>

\* POST /subscribe-request of the signed-in user u.
Submit(u, plan, note) ==
    LET e == findPending(requests, u, plan)
    IN  /\ IF e # 0
           THEN /\ requests' = requests
                /\ last' = [op |-> "submit", uid |-> u, plan |-> plan, note |-> note,
                            status |-> 200, id |-> e]
           ELSE /\ Len(requests) < MaxRequests
                /\ requests' = Append(requests, NewRequest(u, plan, note))
                /\ last' = [op |-> "submit", uid |-> u, plan |-> plan, note |-> note,
                            status |-> 201, id |-> Len(requests) + 1]
        /\ UNCHANGED <<users, calls, now, books>>

\* A faulty variant: a processed request can be approved again.
Approve_again(id) ==
    /\ IF id > Len(requests)
       THEN /\ UNCHANGED <<users, requests, books>>
            /\ last' = [op |-> "approve", id |-> id, status |-> 404]
       ELSE IF requests[id].user \notin DOMAIN users
       THEN /\ UNCHANGED <<users, requests, books>>
            /\ last' = [op |-> "approve", id |-> id, status |-> 404]
       ELSE /\ users' = [users EXCEPT ![requests[id].user] =
                                         granted(@, requests[id].plan, now)]
            /\ requests' = [requests EXCEPT ![id] = processed(@, now)]
            /\ last' = [op |-> "approve", id |-> id, status |-> 200,
                        uid |-> requests[id].user, plan |-> requests[id].plan,
                        was |-> users[requests[id].user].subscription_status]
    /\ UNCHANGED <<calls, now, books>>

\* POST /requests/:id/approve
Approve(id) ==
    /\ IF id > Len(requests)
       THEN /\ UNCHANGED <<users, requests, books>>
            /\ last' = [op |-> "approve", id |-> id, status |-> 404]
       ELSE IF requests[id].status = "processed"
       THEN /\ UNCHANGED <<users, requests, books>>
            /\ last' = [op |-> "approve", id |-> id, status |-> 400]
       ELSE IF requests[id].user \notin DOMAIN users
       THEN /\ UNCHANGED <<users, requests, books>>
            /\ last' = [op |-> "approve", id |-> id, status |-> 404]
       ELSE /\ users' = [users EXCEPT ![requests[id].user] =
                                         granted(@, requests[id].plan, now)]
            /\ requests' = [requests EXCEPT ![id] = processed(@, now)]
            /\ last' = [op |-> "approve", id |-> id, status |-> 200,
                        uid |-> requests[id].user, plan |-> requests[id].plan,
                        was |-> users[requests[id].user].subscription_status]
    /\ UNCHANGED <<calls, now, books>>

\* A faulty variant: a processed request is stamped again.
Dismiss_restamp(id) ==
    /\ IF id > Len(requests)
       THEN /\ UNCHANGED <<requests, books>>
            /\ last' = [op |-> "dismiss", id |-> id, status |-> 404]
       ELSE /\ requests' = [requests EXCEPT ![id] = processed(@, now)]
            /\ last' = [op |-> "dismiss", id |-> id, status |-> 200]
    /\ UNCHANGED <<users, calls, now, books>>

\* POST /requests/:id/mark-processed
Dismiss(id) ==
    /\ IF id > Len(requests)
       THEN /\ UNCHANGED <<requests, books>>
            /\ last' = [op |-> "dismiss", id |-> id, status |-> 404]
       ELSE IF requests[id].status = "processed"
       THEN /\ UNCHANGED <<requests, books>>
            /\ last' = [op |-> "dismiss", id |-> id, status |-> 200]
       ELSE /\ requests' = [requests EXCEPT ![id] = processed(@, now)]
            /\ last' = [op |-> "dismiss", id |-> id, status |-> 200]
    /\ UNCHANGED <<users, calls, now, books>>

\* The entitlement engine: the gate, the admin's grants and cancels, the hourly
\* job and the clock, each operation as one step.
Next ==
    \/ \E u \in UserIds, type \in Types : Access(u, type, NumBooks)
    \/ \E u \in UserIds, plan \in Plans : Grant(u, plan)
    \/ \E u \in UserIds : Cancel(u)
    \/ \E ids \in IdLists, plan \in Plans : BulkGrant(ids, plan)
    \/ \E ids \in IdLists : BulkCancel(ids)
    \/ Sweep
    \/ Tick(Instants)

Spec == Init /\ [][Next]_vars

\* The same without the bulk routes, with content ids up to one past the basic
\* read limit, so that both basic allowances run out.
QuotaBooks == getPlanLimits("basic").maxReads + 1

NextQuota ==
    \/ \E u \in UserIds, type \in Types : Access(u, type, QuotaBooks)
    \/ \E u \in UserIds, plan \in Plans : Grant(u, plan)
    \/ \E u \in UserIds : Cancel(u)
    \/ Sweep
    \/ Tick(Instants)

SpecQuota == Init /\ [][NextQuota]_vars

\* The request queue with the grants it leads to: content id 1 stands for all,
\* and the clock has one later instant, past the end of a grant made at 0.
NextQueue ==
    \/ \E u \in Registered, plan \in Plans : Submit(u, plan, NoNote)
    \/ \E id \in RequestIds : Approve(id)
    \/ \E id \in RequestIds : Dismiss(id)
    \/ \E u \in UserIds, type \in Types : Access(u, type, 1)
    \/ \E u \in UserIds, plan \in Plans : Grant(u, plan)
    \/ \E u \in UserIds : Cancel(u)
    \/ \E ids \in IdLists, plan \in Plans : BulkGrant(ids, plan)
    \/ Tick({PERIOD + 1})

SpecQueue == Init /\ [][NextQueue]_vars

\* Every operation that can touch a user's status, each as one step: the queue,
\* the gate, the grants and cancels and the hourly job, with content id 1 and
\* one later instant.
NextAll ==
    \/ \E u \in Registered, plan \in Plans : Submit(u, plan, NoNote)
    \/ \E id \in RequestIds : Approve(id)
    \/ \E id \in RequestIds : Dismiss(id)
    \/ \E u \in UserIds, type \in Types : Access(u, type, 1)
    \/ \E u \in UserIds, plan \in Plans : Grant(u, plan)
    \/ \E u \in UserIds : Cancel(u)
    \/ \E ids \in IdLists, plan \in Plans : BulkGrant(ids, plan)
    \/ \E ids \in IdLists : BulkCancel(ids)
    \/ Sweep
    \/ Tick({PERIOD + 1})

SpecAll == Init /\ [][NextAll]_vars

\* The hourly job with a store that may be down for a cycle, among grants,
\* cancels and gate calls. The timer keeps firing and the store is there for
\* some later cycle: a cycle that would expire someone is not put off for ever.
NextLive ==
    \/ Sweep
    \/ SweepFail
    \/ \E u \in UserIds, plan \in Plans : Grant(u, plan)
    \/ \E u \in UserIds : Cancel(u)
    \/ \E u \in UserIds, type \in Types : Access(u, type, 1)
    \/ Tick(Instants)

SpecLive == Init /\ [][NextLive]_vars /\ WF_vars(Sweep)

(* ------------------------------ the gate on every stored document ------ *)

\* The gate is a function of the stored document, the request and the clock:
\* here the collection starts with a document of any shape the schema allows,
\* with usage arrays at, and one short of, each plan's limits.
GateNow == PERIOD + 1

Prefix(n) == [i \in 1..n |-> i]

\* <<subscription_start, period_started_at>>: set or not, and PERIOD + 1,
\* PERIOD and PERIOD - 1 before GateNow.
GateWindows ==
    {<<0, 0>>, <<0, 1>>, <<0, 2>>, <<GateNow, 0>>,
     <<NoDate, NoDate>>, <<0, NoDate>>, <<1, NoDate>>, <<2, NoDate>>}

GateEnds == {NoDate, GateNow - 1, GateNow, GateNow + 1}

\* <<reads, downloads>> held: none, or for a plan each at its limit or one short.
GateLevels ==
    {<<0, 0>>} \cup
    UNION {{<<r, d>> : r \in {getPlanLimits(p).maxReads - 1, getPlanLimits(p).maxReads},
                       d \in {getPlanLimits(p).maxDownloads - 1,
                              getPlanLimits(p).maxDownloads}} : p \in Plans}

GateDocs ==
    {[ subscription_plan |-> plan,
       subscription_status |-> status,
       subscription_start |-> w[1],
       subscription_end |-> end,
       period_started_at |-> w[2],
       read_books_in_period |-> Prefix(lv[1]),
       downloaded_books_in_period |-> Prefix(lv[2]) ] :
        plan \in {"none", "basic", "premium"},
        status \in {"none", "active", "expired"},
        w \in GateWindows, end \in GateEnds, lv \in GateLevels}

\* Content ids reach one past the largest limit.
GateBooks == getPlanLimits("premium").maxReads + 1

InitGate ==
    /\ users \in {[u \in Registered |-> d] : d \in GateDocs}
    /\ requests = << >>
    /\ books = << >>
    /\ calls = [p \in Callers |-> Idle]
    /\ now = GateNow
    /\ last = NoOp

\* Requests are made while the stored document is one of GateDocs.
NextGate ==
    \E u \in UserIds, type \in Types :
        /\ \A v \in DOMAIN users : users[v] \in GateDocs
        /\ Access(u, type, GateBooks)

SpecGate == InitGate /\ [][NextGate]_vars

(* ------------------------------ gate calls that interleave ------------- *)

\* user.save() of a loaded document, as Mongoose writes it: only the paths the
\* call changed. An array the call only pushed to goes out as a $push onto the
\* stored array. An array the call assigned (the reset of a non-empty array) goes
\* out whole, under the version check: the save throws when another save has
\* changed the document's arrays since the load.
saveDoc(stored, loaded, doc) ==
    LET reset == doc.period_started_at # loaded.period_started_at
        setR == reset /\ loaded.read_books_in_period # << >>
        setD == reset /\ loaded.downloaded_books_in_period # << >>
        pushR == ~setR /\ Len(doc.read_books_in_period) >
                            (IF reset THEN 0 ELSE Len(loaded.read_books_in_period))
        pushD == ~setD /\ Len(doc.downloaded_books_in_period) >
                            (IF reset THEN 0 ELSE Len(loaded.downloaded_books_in_period))
    IN  [ versioned |-> setR \/ setD,
          bumps |-> setR \/ setD \/ pushR \/ pushD,
          doc |-> [stored EXCEPT
                     !.period_started_at = IF reset THEN doc.period_started_at ELSE @,
                     !.read_books_in_period =
                         IF setR THEN doc.read_books_in_period
                         ELSE IF pushR
                         THEN Append(@, doc.read_books_in_period[Len(doc.read_books_in_period)])
                         ELSE @,
                     !.downloaded_books_in_period =
                         IF setD THEN doc.downloaded_books_in_period
                         ELSE IF pushD
                         THEN Append(@, doc.downloaded_books_in_period[
                                            Len(doc.downloaded_books_in_period)])
                         ELSE @] ]

Done(c, ok, message) ==
    [pc |-> "done", uid |-> c.uid, book |-> c.book, type |-> c.type,
     ok |-> ok, message |-> message]

\* A call's findById and the synchronous code after it: it returns a denial,
\* or stands before save() with the document it loaded and changed.
Load(p, u, b, type) ==
    /\ calls[p].pc = "idle"
    /\ LET c == [uid |-> u, book |-> b, type |-> type]
       IN  calls' = [calls EXCEPT ![p] =
               IF u \notin DOMAIN users
               THEN Done(c, FALSE, MsgNotFound)
               ELSE LET g == gate(users[u], b, type, now)
                    IN  IF g.save
                        THEN [pc |-> "loaded", uid |-> u, book |-> b, type |-> type,
                              loaded |-> users[u], doc |-> g.doc, stale |-> FALSE]
                        ELSE Done(c, FALSE, g.message)]
    /\ UNCHANGED <<users, requests, now, last, books>>

\* The call's save() and its return.
Save(p) ==
    /\ calls[p].pc = "loaded"
    /\ LET c == calls[p]
           w == saveDoc(users[c.uid], c.loaded, c.doc)
       IN  IF w.versioned /\ c.stale
           THEN /\ users' = users
                /\ calls' = [calls EXCEPT ![p] = Done(c, FALSE, "VersionError")]
           ELSE /\ users' = [users EXCEPT ![c.uid] = w.doc]
                /\ calls' = [q \in Callers |->
                               IF q = p THEN Done(c, TRUE, "")
                               ELSE IF w.bumps /\ calls[q].pc = "loaded"
                                               /\ calls[q].uid = c.uid
                               THEN [calls[q] EXCEPT !.stale = TRUE]
                               ELSE calls[q]]
    /\ UNCHANGED <<requests, now, last, books>>

\* User 1 holds a fresh basic grant and has used all but one of each allowance.
InitRace ==
    /\ users = [u \in Registered |->
                  [granted(NewUser, "basic", 0) EXCEPT
                     !.read_books_in_period = Prefix(getPlanLimits("basic").maxReads - 1),
                     !.downloaded_books_in_period =
                         Prefix(getPlanLimits("basic").maxDownloads - 1)]]
    /\ requests = << >>
    /\ books = << >>
    /\ calls = [p \in Callers |-> Idle]
    /\ now = 0
    /\ last = NoOp

\* The calls are alike, so they start in the order of their numbers; each
\* makes one request, for a repeat or for one of the NumCalls least new ids.
NextRace ==
    \/ \E p \in Callers, u \in UserIds, type \in Types :
          \E b \in (IF u \in DOMAIN users
                    THEN Inputs(usage(users[u], type), NumCalls) ELSE {1}) :
              /\ \A q \in 1..(p - 1) : calls[q].pc # "idle"
              /\ Load(p, u, b, type)
    \/ \E p \in Callers : Save(p)

SpecRace == InitRace /\ [][NextRace]_vars

(* ------------------------------ the hourly job, step by step ----------- *)

\* The job reads the clock and sends one updateMany; the store applies the
\* filter and the update to one document at a time, so other writes and other
\* runs of the job come in between. A run remembers the collection it started on.
SweepStart(p) ==
    /\ calls[p].pc = "idle"
    /\ calls' = [calls EXCEPT ![p] = [pc |-> "sweeping", at |-> now,
                                       todo |-> DOMAIN users, base |-> users]]
    /\ UNCHANGED <<users, requests, now, last, books>>

\* The update reaches document u; after the last document the run is over.
SweepDoc(p, u) ==
    /\ calls[p].pc = "sweeping"
    /\ u \in calls[p].todo
    /\ users' = [users EXCEPT ![u] = swept(@, calls[p].at)]
    /\ calls' = [calls EXCEPT ![p] =
                   [pc |-> IF calls[p].todo = {u} THEN "swept" ELSE "sweeping",
                    at |-> calls[p].at, todo |-> calls[p].todo \ {u},
                    base |-> calls[p].base]]
    /\ last' = [op |-> "sweepDoc", run |-> p, uid |-> u, at |-> calls[p].at,
                pre |-> users[u]]
    /\ UNCHANGED <<requests, now, books>>

\* Documents the application leaves behind: a new user, a basic grant made at 0
\* and a premium grant made at 1, both with some usage, and a cancelled user.
SweepDocs ==
    { NewUser,
      [granted(NewUser, "basic", 0) EXCEPT !.read_books_in_period = <<1>>],
      [granted(NewUser, "premium", 1) EXCEPT !.downloaded_books_in_period = <<1>>],
      cancelled([granted(NewUser, "basic", 0) EXCEPT !.read_books_in_period = <<1>>], 1) }

\* Two users, on the last day of the grant made at 0.
InitSweep ==
    /\ users \in [UserIds -> SweepDocs]
    /\ requests = << >>
    /\ books = << >>
    /\ calls = [p \in Callers |-> Idle]
    /\ now = PERIOD
    /\ last = NoOp

\* Runs of the job alone, numbered in the order they start, and the clock.
NextOverlap ==
    \/ \E p \in Callers :
          /\ \A q \in 1..(p - 1) : calls[q].pc # "idle"
          /\ SweepStart(p)
    \/ \E p \in Callers, u \in UserIds : SweepDoc(p, u)
    \/ Tick(Instants)

SpecOverlap == InitSweep /\ [][NextOverlap]_vars

\* One run of the job with grants and cancels coming in between.
NextSweep ==
    \/ SweepStart(1)
    \/ \E u \in UserIds : SweepDoc(1, u)
    \/ \E u \in UserIds, plan \in Plans : Grant(u, plan)
    \/ \E u \in UserIds : Cancel(u)
    \/ Tick(Instants)

SpecSweep == InitSweep /\ [][NextSweep]_vars

(* ------------------------------ submits that interleave --------------- *)

\* A faulty variant: the collection has no such index.
duplicateKey_noIndex(reqs, u, plan) == FALSE

\* The unique partial index on {user, plan, status} for status 'pending': an
\* insert of a pending request is refused while another one of the pair is stored.
duplicateKey(reqs, u, plan) ==
    \E i \in 1..Len(reqs) : /\ reqs[i].user = u
                            /\ reqs[i].plan = plan
                            /\ reqs[i].status = "pending"

\* A submit up to the answer of findOne: it returns the pending request, or
\* goes on to create one.
SubmitFind(p, u, plan, note) ==
    /\ calls[p].pc = "idle"
    /\ LET e == findPending(requests, u, plan)
       IN  calls' = [calls EXCEPT ![p] =
               IF e # 0
               THEN [pc |-> "done", uid |-> u, plan |-> plan, status |-> 200, id |-> e]
               ELSE [pc |-> "creating", uid |-> u, plan |-> plan, note |-> note]]
    /\ UNCHANGED <<users, requests, now, last, books>>

\* The submit's create(): the insert, or the index's refusal, which the
\* handler's catch answers with 500.
SubmitCreate(p) ==
    /\ calls[p].pc = "creating"
    /\ LET c == calls[p]
       IN  IF duplicateKey(requests, c.uid, c.plan)
           THEN /\ requests' = requests
                /\ calls' = [calls EXCEPT ![p] =
                       [pc |-> "done", uid |-> c.uid, plan |-> c.plan,
                        status |-> 500, id |-> 0]]
           ELSE /\ Len(requests) < MaxRequests
                /\ requests' = Append(requests, NewRequest(c.uid, c.plan, c.note))
                /\ calls' = [calls EXCEPT ![p] =
                       [pc |-> "done", uid |-> c.uid, plan |-> c.plan,
                        status |-> 201, id |-> Len(requests) + 1]]
    /\ UNCHANGED <<users, now, last, books>>

\* Submits in two steps, numbered in the order they start, with the admin's
\* approvals and dismissals.
NextSubmit ==
    \/ \E p \in Callers, u \in Registered, plan \in Plans :
          /\ \A q \in 1..(p - 1) : calls[q].pc # "idle"
          /\ SubmitFind(p, u, plan, NoNote)
    \/ \E p \in Callers : SubmitCreate(p)
    \/ \E id \in RequestIds : Approve(id)
    \/ \E id \in RequestIds : Dismiss(id)

SpecSubmit == Init /\ [][NextSubmit]_vars

\* Submits as one step, with and without a note, and the admin's approvals and
\* dismissals at two instants.
NextNotes ==
    \/ \E u \in Registered, plan \in Plans, note \in NoteInputs : Submit(u, plan, note)
    \/ \E id \in RequestIds : Approve(id)
    \/ \E id \in RequestIds : Dismiss(id)
    \/ Tick({PERIOD + 1})

SpecNotes == Init /\ [][NextNotes]_vars

(* ------------------------------ approvals, write by write -------------- *)

\* How an approval ended: the request, its user and plan (0 and "none" when
\* no request was found), whether user.save() went through, and the answer.
Approved(id, uid, plan, wrote, status) ==
    [pc |-> "done", id |-> id, uid |-> uid, plan |-> plan, wrote |-> wrote,
     status |-> status]

\* An approval up to its first write: the refusals, or the grant assigned to
\* the loaded user document.
ApproveLoad(p, id) ==
    /\ calls[p].pc = "idle"
    /\ calls' = [calls EXCEPT ![p] =
           IF id > Len(requests)
           THEN Approved(id, 0, "none", FALSE, 404)
           ELSE IF requests[id].status = "processed"
           THEN Approved(id, requests[id].user, requests[id].plan, FALSE, 400)
           ELSE IF requests[id].user \notin DOMAIN users
           THEN Approved(id, requests[id].user, requests[id].plan, FALSE, 404)
           ELSE [pc |-> "granting", id |-> id, uid |-> requests[id].user,
                 plan |-> requests[id].plan, wrote |-> FALSE,
                 doc |-> granted(users[requests[id].user], requests[id].plan, now)]]
    /\ UNCHANGED <<users, requests, now, last, books>>

\* A faulty variant: a failed user.save() is passed over and the approval goes on.
ApproveSaveUser_swallow(p, ok) ==
    /\ calls[p].pc = "granting"
    /\ LET c == calls[p]
       IN  /\ users' = IF ok THEN [users EXCEPT ![c.uid] = c.doc] ELSE users
           /\ calls' = [calls EXCEPT ![p] =
                  [pc |-> "marking", id |-> c.id, uid |-> c.uid, plan |-> c.plan,
                   wrote |-> ok]]
           /\ last' = [op |-> "approveGrant", id |-> c.id, ok |-> ok]
    /\ UNCHANGED <<requests, now, books>>

\* await user.save(): the grant is stored, or the save throws and the catch
\* answers 500.
ApproveSaveUser(p, ok) ==
    /\ calls[p].pc = "granting"
    /\ LET c == calls[p]
       IN  /\ users' = IF ok THEN [users EXCEPT ![c.uid] = c.doc] ELSE users
           /\ calls' = [calls EXCEPT ![p] =
                  IF ok
                  THEN [pc |-> "marking", id |-> c.id, uid |-> c.uid, plan |-> c.plan,
                        wrote |-> TRUE]
                  ELSE Approved(c.id, c.uid, c.plan, FALSE, 500)]
           /\ last' = [op |-> "approveGrant", id |-> c.id, ok |-> ok]
    /\ UNCHANGED <<requests, now, books>>

\* reqDoc.status = 'processed'; reqDoc.processed_at = new Date(); await
\* reqDoc.save(): the request is marked, or the save throws and the catch
\* answers 500.
ApproveSaveRequest(p, ok) ==
    /\ calls[p].pc = "marking"
    /\ LET c == calls[p]
       IN  /\ requests' = IF ok THEN [requests EXCEPT ![c.id] = processed(@, now)]
                                 ELSE requests
           /\ calls' = [calls EXCEPT ![p] =
                  Approved(c.id, c.uid, c.plan, c.wrote, IF ok THEN 200 ELSE 500)]
           /\ last' = [op |-> "approveMark", id |-> c.id, ok |-> ok]
    /\ UNCHANGED <<users, now, books>>

\* Requests of a user who exists and of one whose document is gone, two
\* approvals that interleave and whose writes may fail, and dismissals.
NextApprove ==
    \/ \E u \in UserIds, plan \in Plans : Submit(u, plan, NoNote)
    \/ \E p \in {1, 2}, id \in RequestIds :
          /\ \A q \in 1..(p - 1) : calls[q].pc # "idle"
          /\ ApproveLoad(p, id)
    \/ \E p \in {1, 2}, ok \in BOOLEAN : ApproveSaveUser(p, ok)
    \/ \E p \in {1, 2}, ok \in BOOLEAN : ApproveSaveRequest(p, ok)
    \/ \E id \in RequestIds : Dismiss(id)

SpecApprove == Init /\ [][NextApprove]_vars

(* ------------------------------ the limits of a plan ------------------- *)

\* Values the lookup can be handed: the schema's plans, other strings, the
\* plans in another case, the empty string.
PlanInputs == {"none", "basic", "premium", "gold", "Basic", "PREMIUM", ""}

\* A call of getPlanLimits(plan), whatever the collection holds.
Lookup(plan) ==
    /\ last' = [op |-> "limits", plan |-> plan, result |-> getPlanLimits(plan)]
    /\ UNCHANGED <<users, requests, calls, now, books>>

\* The lookup, on every stored document of the gate's fixtures.
NextLimits == \E plan \in PlanInputs : Lookup(plan)

SpecLimits == InitGate /\ [][NextLimits]_vars

(* ------------------------------ bulk and single operations ------------- *)

\* Ids an admin can list or name: the two users and an id that matches no one.
BulkUserIds == UserIds \cup {Cardinality(UserIds) + 1}

BulkIdLists == UNION {[1..n -> BulkUserIds] : n \in 1..MaxIds}

\* Two stored users, with the bulk and the single routes and the clock.
NextBulk ==
    \/ \E ids \in BulkIdLists, plan \in Plans : BulkGrant(ids, plan)
    \/ \E ids \in BulkIdLists : BulkCancel(ids)
    \/ \E u \in BulkUserIds, plan \in Plans : Grant(u, plan)
    \/ \E u \in BulkUserIds : Cancel(u)
    \/ Tick(Instants)

SpecBulk == InitSweep /\ [][NextBulk]_vars

(* ------------------------------ the similarity of two titles ---------- *)

\* Strings are sequences of characters; a score is the fraction num / den the
\* function divides out.
Chars == {"a", "b"}

Strings == UNION {[1..n -> Chars] : n \in 0..MaxLen}

\* The loop over i: str.substring(i, i + 2) for i from 0 to length - 2.
pairsOf(str) == [i \in 1..(Len(str) - 1) |-> <<str[i], str[i + 1]>>]

\* pairs2.splice(j, 1)
splice(arr, j) == [k \in 1..(Len(arr) - 1) |-> IF k < j THEN arr[k] ELSE arr[k + 1]]

\* The two nested loops from index i of pairs1 on: the first equal pair of
\* pairs2 is counted and taken out of pairs2.
RECURSIVE intersect(_, _, _, _)
intersect(pairs1, i, pairs2, intersection) ==
    IF i > Len(pairs1)
    THEN [intersection |-> intersection, pairs2 |-> pairs2]
    ELSE LET J == {j \in 1..Len(pairs2) : pairs2[j] = pairs1[i]}
         IN  IF J = {}
             THEN intersect(pairs1, i + 1, pairs2, intersection)
             ELSE intersect(pairs1, i + 1,
                            splice(pairs2, CHOOSE j \in J : \A k \in J : j <= k),
                            intersection + 1)

\* Faulty variants: a matched pair stays in pairs2; short strings score a half.
RECURSIVE intersect_noSplice(_, _, _, _)
intersect_noSplice(pairs1, i, pairs2, intersection) ==
    IF i > Len(pairs1)
    THEN [intersection |-> intersection, pairs2 |-> pairs2]
    ELSE IF \E j \in 1..Len(pairs2) : pairs2[j] = pairs1[i]
         THEN intersect_noSplice(pairs1, i + 1, pairs2, intersection + 1)
         ELSE intersect_noSplice(pairs1, i + 1, pairs2, intersection)

calculateSimilarity_noSplice(str1, str2) ==
    IF str1 = str2 THEN [num |-> 1, den |-> 1]
    ELSE IF Len(str1) < 2 \/ Len(str2) < 2 THEN [num |-> 0, den |-> 1]
    ELSE LET pairs1 == pairsOf(str1)
             r == intersect_noSplice(pairs1, 1, pairsOf(str2), 0)
         IN  [num |-> 2 * r.intersection, den |-> Len(pairs1) + Len(r.pairs2)]

calculateSimilarity_shortHalf(str1, str2) ==
    IF str1 = str2 THEN [num |-> 1, den |-> 1]
    ELSE IF Len(str1) < 2 \/ Len(str2) < 2 THEN [num |-> 1, den |-> 2]
    ELSE LET pairs1 == pairsOf(str1)
             r == intersect(pairs1, 1, pairsOf(str2), 0)
         IN  [num |-> 2 * r.intersection, den |-> Len(pairs1) + Len(r.pairs2)]

\* calculateSimilarity: the length of pairs2 in the last line is its length
\* after the loops have taken the matched pairs out.
calculateSimilarity(str1, str2) ==
    IF str1 = str2 THEN [num |-> 1, den |-> 1]
    ELSE IF Len(str1) < 2 \/ Len(str2) < 2 THEN [num |-> 0, den |-> 1]
    ELSE LET pairs1 == pairsOf(str1)
             r == intersect(pairs1, 1, pairsOf(str2), 0)
         IN  [num |-> 2 * r.intersection, den |-> Len(pairs1) + Len(r.pairs2)]

\* Every string over Chars up to MaxLen, and three words.
ScoreInputs ==
    Strings \cup { <<"n", "i", "g", "h", "t">>, <<"n", "a", "c", "h", "t">>,
                   <<"h", "e", "l", "l", "o">> }

\* Two strings wait to be compared.
InitScore ==
    /\ users = [u \in Registered |-> NewUser]
    /\ requests = << >>
    /\ books = << >>
    /\ calls = [p \in Callers |-> Idle]
    /\ now = 0
    /\ last \in {[op |-> "input", a |-> str1, b |-> str2] :
                    str1 \in ScoreInputs, str2 \in ScoreInputs}

\* A call of calculateSimilarity(a, b).
Score ==
    /\ last.op = "input"
    /\ last' = [op |-> "score", a |-> last.a, b |-> last.b,
                result |-> calculateSimilarity(last.a, last.b)]
    /\ UNCHANGED <<users, requests, calls, now, books>>

NextScore == Score

SpecScore == InitScore /\ [][NextScore]_vars

(* ------------------------------ the upload of a book ------------------- *)

\* Titles as the upload form can send them: different titles that share
\* bigrams, capital letters, spaces around, and nothing but spaces.
UploadTitles ==
    { <<"a", "b", "a", "b">>, <<" ", "A", "b", "a", "b", " ">>,
      <<"a", "b", "a", "a", "a">>, <<"A", "b", "a", "a">>, <<"b", "b">>, <<" ">> }

Authors == {"x"}

\* What goes wrong in one request, if anything: at most one thing does.
Faults == {"none", "missingFiles", "findFails", "notPdf", "notImage", "mvFails",
           "saveFails", "updateFails"}

\* String.prototype.toLowerCase on the characters titles are made of.
toLowerCase(str) ==
    [i \in 1..Len(str) |->
        IF str[i] = "A" THEN "a" ELSE IF str[i] = "B" THEN "b" ELSE str[i]]

\* Joi's trim(): the spaces at both ends are dropped.
RECURSIVE trim(_)
trim(str) ==
    IF str # << >> /\ Head(str) = " " THEN trim(Tail(str))
    ELSE IF str # << >> /\ str[Len(str)] = " " THEN trim(SubSeq(str, 1, Len(str) - 1))
    ELSE str

\* bookUploadSchema on the title: trimmed, at least one character.
validate(raw) == [error |-> Len(trim(raw)) < 1, title |-> trim(raw)]

\* Faulty variant: a similarity of 0.8 counts as a duplicate.
aboveThreshold_atLeast(similarity) == 5 * similarity.num >= 4 * similarity.den

\* similarity > 0.8, on the fraction the function divides out.
aboveThreshold(similarity) == 5 * similarity.num > 4 * similarity.den

\* existingBooks.filter(...)
duplicatesOf(title, existingBooks) ==
    SelectSeq(existingBooks,
              LAMBDA book : aboveThreshold(calculateSimilarity(toLowerCase(title),
                                                               toLowerCase(book.title))))

\* The books the 409 answer names: "title" by author, or by Unknown.
duplicateList(duplicates) ==
    [i \in 1..Len(duplicates) |->
        [title |-> duplicates[i].title,
         author |-> IF duplicates[i].author = "" THEN "Unknown" ELSE duplicates[i].author]]

\* Book.updateMany({ _id: { $ne: newBook._id } }, { $set: { featured: false } })
unfeatured(existingBooks) ==
    [i \in 1..Len(existingBooks) |-> [existingBooks[i] EXCEPT !.featured = FALSE]]

\* POST /upload. The fields of a book that no check reads (category, tags,
\* paths) are left out.
Upload(raw, author, featured, fault) ==
    LET value == validate(raw)
        duplicates == IF fault = "findFails" THEN << >>
                      ELSE duplicatesOf(value.title, books)
        newBook == [title |-> value.title, author |-> author, featured |-> featured]
        status == IF fault = "missingFiles" THEN 400
                  ELSE IF value.error THEN 400
                  ELSE IF duplicates # << >> THEN 409
                  ELSE IF fault \in {"notPdf", "notImage"} THEN 400
                  ELSE IF fault \in {"mvFails", "saveFails", "updateFails"} THEN 500
                  ELSE 302
        saved == /\ fault \in {"none", "findFails", "updateFails"}
                 /\ ~value.error
                 /\ duplicates = << >>
    IN  /\ saved => Len(books) < MaxCatalog
        /\ books' = IF ~saved THEN books
                    ELSE IF featured /\ fault # "updateFails"
                         THEN Append(unfeatured(books), newBook)
                         ELSE Append(books, newBook)
        /\ last' = [op |-> "upload", title |-> value.title,
                    valid |-> fault # "missingFiles" /\ ~value.error,
                    find |-> fault # "findFails", status |-> status,
                    duplicates |-> duplicateList(duplicates)]
        /\ UNCHANGED <<users, requests, calls, now>>

NextUpload ==
    \E raw \in UploadTitles, author \in Authors, featured \in BOOLEAN, fault \in Faults :
        Upload(raw, author, featured, fault)

SpecUpload == Init /\ [][NextUpload]_vars

(* ------------------------------ the listing of requests --------------- *)

\* The status parameter of the listing: absent, a status, or anything else.
StatusInputs == {"", "pending", "processed", "all"}

\* populate('user'): the user document of a request, none when it is gone.
populated(r) == IF r.user \in DOMAIN users THEN {r.user} ELSE {}

\* `${r.user?._id || 'nouser'}|${r.plan}|${r.status}`
dedupKey(r) == <<populated(r), r.plan, r.status>>

\* The ids find(query) matches.
found(status) ==
    {i \in 1..Len(requests) :
        status \in {"pending", "processed"} => requests[i].status = status}

\* sort({ createdAt: -1 }): every order of the ids with createdAt descending;
\* requests created at the same instant come in either order.
sortedDesc(S) ==
    {items \in [1..Cardinality(S) -> S] :
        /\ \A i, j \in 1..Cardinality(S) : i # j => items[i] # items[j]
        /\ \A i, j \in 1..Cardinality(S) :
              i < j => requests[items[i]].createdAt >= requests[items[j]].createdAt}

\* The loop over items: an item whose key was seen is skipped.
RECURSIVE unique(_, _, _, _)
unique(items, i, seen, out) ==
    IF i > Len(items) THEN out
    ELSE LET key == dedupKey(requests[items[i]])
         IN  IF key \in seen
             THEN unique(items, i + 1, seen, out)
             ELSE unique(items, i + 1, seen \cup {key}, Append(out, items[i]))

\* One entry of the answer.
entry(id) ==
    [id |-> id, plan |-> requests[id].plan, status |-> requests[id].status,
     createdAt |-> requests[id].createdAt, processed_at |-> requests[id].processed_at,
     user |-> populated(requests[id]), note |-> requests[id].note]

\* GET /api/subscription-requests?status=...
List(param) ==
    LET status == IF param = "" THEN "pending" ELSE param
    IN  \E items \in sortedDesc(found(status)) :
            LET kept == unique(items, 1, {}, << >>)
            IN  /\ last' = [op |-> "list", status |-> status,
                            entries |-> [k \in 1..Len(kept) |-> entry(kept[k])]]
                /\ UNCHANGED <<users, requests, calls, now, books>>

\* Users, one registered and two whose documents are gone, submit; the admin
\* dismisses and lists; the clock moves once.
NextListing ==
    \/ \E u \in BulkUserIds, plan \in Plans : Submit(u, plan, NoNote)
    \/ \E id \in RequestIds : Dismiss(id)
    \/ \E param \in StatusInputs : List(param)
    \/ Tick({1})

SpecListing == Init /\ [][NextListing]_vars

(* ------------------------------ the reset alone ------------------------ *)

\* resetPeriodIfNeeded(user) on the document of u. The record tells whether
\* the test of the function passed, and the same for the application before
\* when that was on the same document at the same instant.
Reset(u) ==
    /\ u \in DOMAIN users
    /\ users' = [users EXCEPT ![u] = resetPeriodIfNeeded(@, now)]
    /\ last' = [op |-> "reset", uid |-> u, at |-> now,
                did |-> shouldReset(users[u], now),
                before |-> IF last.op = "reset" /\ last.uid = u /\ last.at = now
                           THEN IF last.did THEN "reset" ELSE "kept"
                           ELSE "other"]
    /\ UNCHANGED <<requests, calls, now, books>>

\* The function is applied to documents of GateDocs, again and again, and the
\* clock moves past the next window.
NextReset ==
    \/ \E u \in UserIds : Reset(u)
    \/ Tick({GateNow + PERIOD + 1})

SpecReset == InitGate /\ [][NextReset]_vars

(* ------------------------------ grants and cancels, write by write ----- *)

\* user.save() of a document that was loaded and assigned to: the paths whose
\* value differs from the loaded one are written, the others are left as
\* stored.
savePaths(stored, loaded, doc) ==
    [f \in DOMAIN stored |-> IF doc[f] # loaded[f] THEN doc[f] ELSE stored[f]]

\* A save that replaces an array goes with the version it loaded, and counts
\* the version up.
setsArray(loaded, doc) ==
    \/ doc.read_books_in_period # loaded.read_books_in_period
    \/ doc.downloaded_books_in_period # loaded.downloaded_books_in_period

\* A handler between its findById and its save().
Writing(op, u, plan, loaded, doc) ==
    [pc |-> "writing", op |-> op, uid |-> u, plan |-> plan, loaded |-> loaded,
     doc |-> doc, stale |-> FALSE]

\* The calls in flight after the version of u's document was counted up.
outdated(u, p) ==
    [q \in Callers |->
        IF q # p /\ calls[q].pc = "writing" /\ calls[q].uid = u
        THEN [calls[q] EXCEPT !.stale = TRUE]
        ELSE calls[q]]

\* POST /users/:id/subscription up to save(): the grant assigned to the loaded
\* document.
GrantLoad(p, u, plan) ==
    /\ calls[p].pc = "idle"
    /\ u \in DOMAIN users
    /\ calls' = [calls EXCEPT ![p] =
                    Writing("grant", u, plan, users[u], granted(users[u], plan, now))]
    /\ UNCHANGED <<users, requests, now, last, books>>

\* POST /users/:id/subscription/cancel up to save().
CancelLoad(p, u) ==
    /\ calls[p].pc = "idle"
    /\ u \in DOMAIN users
    /\ calls' = [calls EXCEPT ![p] =
                    Writing("cancel", u, "none", users[u], cancelled(users[u], now))]
    /\ UNCHANGED <<users, requests, now, last, books>>

\* await user.save() and the answer: 200, or 500 when the version moved under
\* a save that replaces an array.
WriteSave(p) ==
    /\ calls[p].pc = "writing"
    /\ LET c == calls[p]
           versioned == setsArray(c.loaded, c.doc)
       IN  IF versioned /\ c.stale
           THEN /\ users' = users
                /\ calls' = [calls EXCEPT ![p] = [pc |-> "done"]]
                /\ last' = [op |-> c.op, uid |-> c.uid, plan |-> c.plan, status |-> 500]
           ELSE /\ users' = [users EXCEPT ![c.uid] = savePaths(@, c.loaded, c.doc)]
                /\ calls' = [(IF versioned THEN outdated(c.uid, p) ELSE calls)
                                EXCEPT ![p] = [pc |-> "done"]]
                /\ last' = [op |-> c.op, uid |-> c.uid, plan |-> c.plan, status |-> 200]
    /\ UNCHANGED <<requests, now, books>>

\* No handler stands between its findById and its save().
Quiet == \A p \in Callers : calls[p].pc # "writing"

\* Two admin calls, one per session, grant or cancel with their loads and
\* saves in any order; the other operations run whole, before and after them.
NextWrites ==
    \/ \E p \in {1, 2}, u \in Registered, plan \in Plans : GrantLoad(p, u, plan)
    \/ \E p \in {1, 2}, u \in Registered : CancelLoad(p, u)
    \/ \E p \in {1, 2} : WriteSave(p)
    \/ \E u \in Registered, type \in Types : Quiet /\ Access(u, type, 1)
    \/ \E u \in Registered, plan \in Plans : Quiet /\ Grant(u, plan)
    \/ \E u \in Registered : Quiet /\ Cancel(u)
    \/ \E ids \in IdLists, plan \in Plans : Quiet /\ BulkGrant(ids, plan)
    \/ \E ids \in IdLists : Quiet /\ BulkCancel(ids)
    \/ Quiet /\ Sweep
    \/ Quiet /\ Tick({PERIOD + 1})

SpecWrites == Init /\ [][NextWrites]_vars

(* ------------------------------ properties ----------------------------- *)

\* The limit of a plan for an action type.
Limit(plan, type) ==
    IF type = "read" THEN getPlanLimits(plan).maxReads ELSE getPlanLimits(plan).maxDownloads

Other(type) == IF type = "read" THEN "download" ELSE "read"

Ids(arr) == {arr[i] : i \in 1..Len(arr)}

\* The stored document carries a subscription that is active and has not ended.
Valid(doc, t) ==
    /\ doc.subscription_status = "active"
    /\ doc.subscription_end # NoDate
    /\ doc.subscription_end >= t

\* The last operation was a gate call for a user that exists.
Called == last.op = "consume" /\ last.uid \in DOMAIN users

\* C1: after any sequence of whole grant, cancel, sweep and gate operations, a
\* user whose status is active holds at most maxReads ids in
\* read_books_in_period and at most maxDownloads ids in
\* downloaded_books_in_period, for the limits of the user's current plan.
C1_UsageWithinLimits ==
    \A u \in DOMAIN users :
        users[u].subscription_status = "active" =>
            /\ Len(users[u].read_books_in_period)
                    <= getPlanLimits(users[u].subscription_plan).maxReads
            /\ Len(users[u].downloaded_books_in_period)
                    <= getPlanLimits(users[u].subscription_plan).maxDownloads

\* An active user with both arrays at their limits has just been turned away.
C1_Witness ==
    /\ Called /\ ~last.ok
    /\ users[last.uid].subscription_status = "active"
    /\ Len(users[last.uid].read_books_in_period)
            = getPlanLimits(users[last.uid].subscription_plan).maxReads
    /\ Len(users[last.uid].downloaded_books_in_period)
            = getPlanLimits(users[last.uid].subscription_plan).maxDownloads

\* C2: however many gate calls of one user for one action type interleave
\* (each loads the document, decides, and saves later), the usage array never
\* holds more than one id beyond the plan's limit.
C2_OverrunAtMostOne ==
    \A u \in DOMAIN users, type \in Types :
        Cardinality(Ids(usage(users[u], type)))
            <= Limit(users[u].subscription_plan, type) + 1

\* C3: a gate call for an existing user is turned away as inactive whenever the
\* stored status is not active, or subscription_end is unset, or
\* subscription_end < now: also when the stored status is still active and
\* only the end date has passed, for read and for download; nothing is stored.
C3_InactiveDenied ==
    Called =>
        ((\/ last.pre.subscription_status # "active"
          \/ last.pre.subscription_end = NoDate
          \/ last.pre.subscription_end < now)
         => /\ ~last.ok
            /\ last.message = MsgInactive
            /\ users[last.uid] = last.pre)

\* A call was turned away as inactive though the stored status says active
\* and the plan has limits: only the end date had passed.
C3_Witness ==
    /\ Called
    /\ last.pre.subscription_status = "active"
    /\ last.pre.subscription_plan = "basic"
    /\ last.pre.subscription_end # NoDate
    /\ last.pre.subscription_end < now
    /\ last.message = MsgInactive

\* C4: for a user with a valid active subscription and a content id the
\* relevant usage array does not hold, the gate authorizes exactly when the
\* array's size is strictly below the plan's limit for the action type, and the
\* array then grows by that id alone; otherwise it denies with the limit
\* message of that action type and stores nothing. So on basic the sixth
\* distinct download is denied after five were let through.
C4_QuotaBoundary ==
    (Called /\ Valid(last.pre, now)
            /\ ~Has(usage(last.pre, last.type), last.book))
    => IF Len(usage(last.pre, last.type)) < Limit(last.pre.subscription_plan, last.type)
       THEN /\ last.ok
            /\ usage(users[last.uid], last.type)
                   = Append(usage(last.pre, last.type), last.book)
            /\ usage(users[last.uid], Other(last.type))
                   = usage(last.pre, Other(last.type))
       ELSE /\ ~last.ok
            /\ last.message = (IF last.type = "read" THEN MsgReadLimit
                                                      ELSE MsgDownloadLimit)
            /\ users[last.uid] = last.pre

\* On basic, with five downloads held, a sixth id has just been denied.
C4_Witness ==
    /\ Called /\ Valid(last.pre, now)
    /\ last.type = "download"
    /\ last.pre.subscription_plan = "basic"
    /\ last.pre.downloaded_books_in_period = <<1, 2, 3, 4, 5>>
    /\ last.book = 6
    /\ ~last.ok /\ last.message = MsgDownloadLimit

\* C5: a gate call for an id the relevant usage array of a validly subscribed
\* user already holds is authorized, also when that array is at its limit, and
\* leaves the stored document as it was, so that any repeat of the call meets
\* the same state and gives the same answer.
C5_RepeatAuthorized ==
    (Called /\ Valid(last.pre, now) /\ Has(usage(last.pre, last.type), last.book))
    => /\ last.ok
       /\ users[last.uid] = last.pre

\* A repeat was let through with the array at its limit.
C5_Witness ==
    /\ Called /\ Valid(last.pre, now)
    /\ Has(usage(last.pre, last.type), last.book)
    /\ Len(usage(last.pre, last.type)) = Limit(last.pre.subscription_plan, last.type)
    /\ last.ok

\* The document a grant of plan leaves at instant t.
JustGranted(plan, t) ==
    [ subscription_plan |-> plan,
      subscription_status |-> "active",
      subscription_start |-> t,
      subscription_end |-> t + PERIOD,
      period_started_at |-> t,
      read_books_in_period |-> << >>,
      downloaded_books_in_period |-> << >> ]

\* C6: a grant on an existing user (the approval of a request, the direct
\* grant, the bulk grant), whatever the user's plan, status, dates and usage
\* before, leaves status active, the granted plan, subscription_start = now,
\* subscription_end = now + 30 days, period_started_at = now and both usage
\* arrays empty.
C6_GrantEffect ==
    /\ (last.op \in {"grant", "approve"} /\ last.status = 200)
           => users[last.uid] = JustGranted(last.plan, now)
    /\ last.op = "bulkGrant"
           => \A u \in DOMAIN users :
                 InIds(last.ids, u) => users[u] = JustGranted(last.plan, now)

\* A request was approved after the end of an earlier grant.
C6_Witness ==
    /\ last.op = "approve" /\ last.status = 200
    /\ now > PERIOD
    /\ requests[last.id].processed_at = now

\* C7: right after a premium grant to a user (direct or bulk), a gate call of
\* that user for a read is authorized, whatever the user's state before the
\* grant, and read_books_in_period holds the id afterwards.
C7_ReadAfterPremiumGrant ==
    [][ ( /\ \/ last.op = "grant" /\ last.status = 200 /\ last.uid \in DOMAIN users
             \/ last.op = "bulkGrant"
          /\ last.plan = "premium"
          /\ last'.op = "consume"
          /\ last'.type = "read"
          /\ last'.uid \in DOMAIN users
          /\ IF last.op = "grant" THEN last'.uid = last.uid
                                  ELSE InIds(last.ids, last'.uid) )
        => ( /\ last'.ok
             /\ Has(users'[last'.uid].read_books_in_period, last'.book) ) ]_vars

\* A read was authorized for a user whose document was that of a premium
\* grant made at this instant after an earlier one had run out.
C7_Witness ==
    /\ Called /\ last.type = "read" /\ last.ok
    /\ now > PERIOD
    /\ last.pre = JustGranted("premium", now)
    /\ users[last.uid].read_books_in_period = <<last.book>>

\* What a cancel at instant t makes of a document.
CancelEffect(old, new, t) ==
    /\ new.subscription_status = "expired"
    /\ new.subscription_plan = "none"
    /\ new.subscription_end = t
    /\ new.subscription_start = old.subscription_start
    /\ new.period_started_at = old.period_started_at
    /\ new.read_books_in_period = old.read_books_in_period
    /\ new.downloaded_books_in_period = old.downloaded_books_in_period

\* C8: a cancel (single or bulk) sets status expired, plan none and
\* subscription_end = now, and leaves subscription_start, period_started_at
\* and both usage arrays as they were.
C8_CancelFrame ==
    [][ /\ (last'.op = "cancel" /\ last'.status = 200)
              => CancelEffect(users[last'.uid], users'[last'.uid], now)
        /\ last'.op = "bulkCancel"
              => \A u \in DOMAIN users :
                    InIds(last'.ids, u) => CancelEffect(users[u], users'[u], now) ]_vars

\* A user with a running grant and recorded usage was cancelled.
C8_Witness ==
    /\ last.op \in {"cancel", "bulkCancel"}
    /\ \E u \in DOMAIN users :
          /\ users[u].subscription_status = "expired"
          /\ users[u].subscription_end = now
          /\ users[u].subscription_start # NoDate
          /\ users[u].subscription_start < now
          /\ users[u].read_books_in_period # << >>
          /\ users[u].downloaded_books_in_period # << >>

\* C9: when a validly subscribed user's period_started_at lies more than 30
\* days before now, the gate call empties both usage arrays and sets
\* period_started_at = now before it looks at the quota: the call is
\* authorized, also for a new id that a full array blocked, and the array
\* afterwards holds that id alone.
C9_Rollover ==
    (Called /\ Valid(last.pre, now)
            /\ last.pre.subscription_plan \in Plans
            /\ last.pre.period_started_at # NoDate
            /\ now - last.pre.period_started_at > PERIOD)
    => /\ last.ok
       /\ users[last.uid] =
              [last.pre EXCEPT
                 !.period_started_at = now,
                 !.read_books_in_period =
                     IF last.type = "read" THEN <<last.book>> ELSE << >>,
                 !.downloaded_books_in_period =
                     IF last.type = "download" THEN <<last.book>> ELSE << >>]

\* A new download id was let through though the stored array was full.
C9_Witness ==
    /\ Called /\ Valid(last.pre, now)
    /\ last.pre.period_started_at # NoDate
    /\ now - last.pre.period_started_at > PERIOD
    /\ last.type = "download"
    /\ Len(last.pre.downloaded_books_in_period)
           = getPlanLimits(last.pre.subscription_plan).maxDownloads
    /\ Len(last.pre.downloaded_books_in_period) > 0
    /\ ~Has(last.pre.downloaded_books_in_period, last.book)
    /\ last.ok
    /\ users[last.uid].downloaded_books_in_period = <<last.book>>

\* The call reset the window: the document in memory starts its window now
\* and holds no id but the requested one.
ResetDone ==
    /\ last.doc.period_started_at = now
    /\ last.doc.period_started_at # last.pre.period_started_at
    /\ Ids(last.doc.read_books_in_period) \subseteq {last.book}
    /\ Ids(last.doc.downloaded_books_in_period) \subseteq {last.book}

\* The call left the window alone: its start and the ids held are kept.
ResetNotDone ==
    /\ last.doc.period_started_at = last.pre.period_started_at
    /\ Ids(last.pre.read_books_in_period) \subseteq Ids(last.doc.read_books_in_period)
    /\ Ids(last.pre.downloaded_books_in_period)
           \subseteq Ids(last.doc.downloaded_books_in_period)

\* C10, as stated: the reset is performed exactly when period_started_at is
\* unset or now - period_started_at > 30 days: always when it is unset,
\* whatever subscription_start is, and not when exactly 30 days have passed.
C10_ResetByPeriodStartOnly ==
    (Called /\ Valid(last.pre, now))
    => (ResetDone <=> (\/ last.pre.period_started_at = NoDate
                       \/ now - last.pre.period_started_at > PERIOD))

\* C10, amended: the window's start is period_started_at, or subscription_start
\* when period_started_at is unset; the reset is performed exactly when that
\* start is unset or more than 30 days before now. With period_started_at
\* unset and subscription_start at most 30 days back there is no reset, and
\* there is none when exactly 30 days have passed.
C10_ResetByWindowStart ==
    (Called /\ Valid(last.pre, now))
    => LET start == IF last.pre.period_started_at # NoDate
                    THEN last.pre.period_started_at
                    ELSE last.pre.subscription_start
       IN  IF start = NoDate \/ now - start > PERIOD
           THEN ResetDone
           ELSE ResetNotDone

\* period_started_at was unset, subscription_start exactly 30 days back: the
\* call went through the validity test and did not reset.
C10_Witness ==
    /\ Called /\ Valid(last.pre, now)
    /\ last.pre.period_started_at = NoDate
    /\ last.pre.subscription_start # NoDate
    /\ now - last.pre.subscription_start = PERIOD
    /\ ResetNotDone
    /\ last.doc.period_started_at = NoDate

\* The step was a grant to user u: an approval of a request of u, a direct
\* grant to u, or a bulk grant that lists u.
GrantStep(l, u) ==
    \/ l.op \in {"grant", "approve"} /\ l.status = 200 /\ l.uid = u
    \/ l.op = "bulkGrant" /\ InIds(l.ids, u)

\* C11: a user's stored status turns from none or expired to active only in a
\* step that is a grant to that user (approval, direct grant, bulk grant), which
\* leaves the document of a fresh grant; the gate, the sweep, cancel, submit
\* and dismiss never make a status active.
C11_ActiveOnlyByGrant ==
    [][ \A u \in DOMAIN users :
          (users[u].subscription_status # "active"
              /\ users'[u].subscription_status = "active")
          => /\ GrantStep(last', u)
             /\ users'[u] = JustGranted(last'.plan, now) ]_vars

\* A request was approved for a user whose stored status was expired: the
\* request is processed now and the user holds a fresh grant.
C11_Witness ==
    /\ last.op = "approve" /\ last.status = 200
    /\ last.was = "expired"
    /\ now > 0
    /\ requests[last.id].processed_at = now
    /\ users[last.uid] = JustGranted(last.plan, now)

\* The document gives no access at instant t: cancelled, expired or never
\* granted, or with an end date that has passed.
Lapsed(doc, t) ==
    \/ doc.subscription_status # "active"
    \/ doc.subscription_end = NoDate
    \/ doc.subscription_end < t

\* C12: there is no automatic renewal. Once a user's subscription_end has
\* passed or the user has been cancelled, no step other than a grant to that
\* user ends this, however far the clock moves, and every gate call of the
\* user in between is denied, for every content id and both action types.
C12_NoRenewal ==
    [][ \A u \in DOMAIN users :
          (Lapsed(users[u], now) /\ ~GrantStep(last', u))
          => /\ Lapsed(users'[u], now')
             /\ (last'.op = "consume" /\ last'.uid = u) => ~last'.ok ]_vars

\* A download was denied a full period after the user's cancel.
C12_Witness ==
    /\ Called /\ ~last.ok
    /\ last.type = "download"
    /\ last.pre.subscription_status = "expired"
    /\ last.pre.subscription_plan = "none"
    /\ last.pre.subscription_end # NoDate
    /\ now - last.pre.subscription_end >= PERIOD
    /\ last.pre.downloaded_books_in_period # << >>
    /\ users[last.uid] = last.pre

\* C13: a gate call, whatever its outcome, leaves the stored
\* subscription_status, subscription_plan, subscription_start and
\* subscription_end of every user as they were; a status that is still active
\* with an end date in the past is not written back as expired.
C13_GateKeepsSubscription ==
    [][ last'.op = "consume"
        => /\ DOMAIN users' = DOMAIN users
           /\ \A u \in DOMAIN users :
                 /\ users'[u].subscription_status = users[u].subscription_status
                 /\ users'[u].subscription_plan = users[u].subscription_plan
                 /\ users'[u].subscription_start = users[u].subscription_start
                 /\ users'[u].subscription_end = users[u].subscription_end ]_vars

\* A call found the status active with the end date passed, was denied, and
\* the stored status is still active.
C13_Witness ==
    /\ Called /\ ~last.ok
    /\ last.pre.subscription_status = "active"
    /\ last.pre.subscription_end # NoDate
    /\ last.pre.subscription_end < now
    /\ users[last.uid].subscription_status = "active"
    /\ users[last.uid].subscription_end = last.pre.subscription_end

\* C14: every denied gate call (user not found, subscription inactive, no
\* active plan, read or download limit reached) returns its reason as a value
\* and leaves every stored user document as it was, usage arrays and
\* period_started_at included, also when the call had reset the window in
\* memory before it was denied.
C14_DenialStoresNothing ==
    [][ (last'.op = "consume" /\ ~last'.ok)
        => /\ users' = users
           /\ requests' = requests
           /\ last'.message \in {MsgNotFound, MsgInactive, MsgNoPlan,
                                  MsgReadLimit, MsgDownloadLimit}
           /\ (last'.message = MsgNotFound) <=> (last'.uid \notin DOMAIN users) ]_vars

\* A call passed the validity test, reset the window of the document in
\* memory, and was denied for want of a plan: the stored document still has
\* the old window and the ids it held.
C14_Witness ==
    /\ Called /\ ~last.ok
    /\ last.message = MsgNoPlan
    /\ last.doc.period_started_at = now
    /\ last.pre.period_started_at # now
    /\ last.pre.read_books_in_period # << >>
    /\ last.doc.read_books_in_period = << >>
    /\ users[last.uid] = last.pre

\* C15: when a run of the sweep reaches a document, it sets subscription_status
\* to expired exactly if the stored status is active and subscription_end lies
\* before the instant the run read from the clock; it changes no other field of
\* that document, no other document and no request. Also with grants and
\* cancels coming in between, a document it expires has its end date in the past.
C15_SweepEffect ==
    [][ last'.op = "sweepDoc"
        => LET u == last'.uid
               d == users[u]
           IN  /\ \A v \in DOMAIN users : v # u => users'[v] = users[v]
               /\ requests' = requests
               /\ users'[u] = IF /\ d.subscription_status = "active"
                                 /\ d.subscription_end # NoDate
                                 /\ d.subscription_end < last'.at
                              THEN [d EXCEPT !.subscription_status = "expired"]
                              ELSE d
               /\ users'[u] # d => d.subscription_end < now ]_vars

\* A user was active with the end date passed when the run started and was
\* granted anew before the run's update reached the document, which it left
\* alone; the other user's document had been expired by the same run.
C15_Witness ==
    /\ last.op = "sweepDoc"
    /\ LET b == calls[last.run].base[last.uid]
       IN  /\ b.subscription_status = "active"
           /\ b.subscription_end < last.at
           /\ last.pre.subscription_status = "active"
           /\ last.pre.subscription_end >= last.at
           /\ last.pre.subscription_start >= last.at
           /\ users[last.uid] = last.pre
    /\ \E v \in DOMAIN users :
          /\ v # last.uid
          /\ calls[last.run].base[v].subscription_status = "active"
          /\ users[v] = [calls[last.run].base[v] EXCEPT !.subscription_status = "expired"]

\* The stored status of u is active though the end date has passed.
StaleActive(u) ==
    /\ users[u].subscription_status = "active"
    /\ users[u].subscription_end # NoDate
    /\ users[u].subscription_end < now

\* C16: if a user's stored status is active and subscription_end has passed,
\* then, the timer firing on and the store being there for some later cycle,
\* the stored status eventually is expired, or the user holds a grant that has
\* not ended. A cycle that fails on the store changes no user and no request,
\* and cycles after it still run.
C16_SweepEventually ==
    /\ \A u \in Registered :
          StaleActive(u) ~> (\/ users[u].subscription_status = "expired"
                            \/ /\ users[u].subscription_status = "active"
                               /\ users[u].subscription_end >= now)
    /\ [][ last'.op = "sweepFailed"
             => users' = users /\ requests' = requests /\ now' = now ]_vars

\* A cycle has expired a user whose grant had run out: the plan and the end
\* date of the grant are still stored.
C16_Witness ==
    /\ last.op = "sweep"
    /\ \E u \in DOMAIN users :
          /\ users[u].subscription_status = "expired"
          /\ users[u].subscription_plan \in Plans
          /\ users[u].subscription_end = users[u].subscription_start + PERIOD
          /\ users[u].subscription_end < now

\* What one run of the sweep at instant t makes of a document.
SingleSweep(doc, t) ==
    IF /\ doc.subscription_status = "active"
       /\ doc.subscription_end # NoDate
       /\ doc.subscription_end < t
    THEN [doc EXCEPT !.subscription_status = "expired"]
    ELSE doc

\* The runs of the sweep that have started.
Started == {p \in Callers : calls[p].pc # "idle"}

\* C17: runs of the sweep that overlap or follow one another, with no other
\* operation in between, leave every user as one run does (the one that read
\* the clock last) on the collection the first run started on; the write of a
\* run to a document that is already expired changes nothing.
C17_SweepIdempotent ==
    /\ (Started # {} /\ \A p \in Started : calls[p].pc = "swept")
          => LET latest == CHOOSE p \in Started : \A q \in Started : q <= p
             IN  \A u \in DOMAIN users :
                     users[u] = SingleSweep(calls[1].base[u], calls[latest].at)
    /\ (last.op = "sweepDoc" /\ last.pre.subscription_status = "expired")
          => users[last.uid] = last.pre

\* Two runs overlapped and are over: when the second started, the first had
\* expired one user and not yet reached the other, who is expired now.
C17_Witness ==
    /\ Started = {1, 2}
    /\ calls[1].pc = "swept" /\ calls[2].pc = "swept"
    /\ \E u \in DOMAIN users, v \in DOMAIN users :
          /\ u # v
          /\ calls[1].base[u].subscription_status = "active"
          /\ calls[2].base[u] = calls[1].base[u]
          /\ calls[1].base[v].subscription_status = "active"
          /\ calls[2].base[v].subscription_status = "expired"
          /\ users[u].subscription_status = "expired"
          /\ users[v] = calls[2].base[v]

\* The requests of user u for plan, all and pending.
RequestsOf(reqs, u, plan) ==
    {i \in 1..Len(reqs) : reqs[i].user = u /\ reqs[i].plan = plan}

PendingOf(reqs, u, plan) ==
    {i \in RequestsOf(reqs, u, plan) : reqs[i].status = "pending"}

\* A submit follows a submit of the same user for the same plan.
Resubmit == 
    /\ last.op = "submit" /\ last'.op = "submit"
    /\ last'.uid = last.uid /\ last'.plan = last.plan

\* C18, as stated: two submits of a user for a plan, whatever their notes, with
\* no approve or dismiss in between return the same request id, the second creates and changes
\* nothing, and exactly one request record exists for the pair afterwards.
C18_OneRecordPerPair ==
    [][ Resubmit
        => /\ last'.id = last.id
           /\ requests' = requests
           /\ Cardinality(RequestsOf(requests', last.uid, last.plan)) = 1 ]_vars

\* C18, amended: two submits of a user for a plan, whatever their notes, with
\* no approve or dismiss in between return the same request id, the second creates and changes nothing,
\* and exactly one pending request exists for the pair afterwards, the one
\* returned; requests of the pair processed earlier are still there.
C18_OnePendingPerPair ==
    [][ Resubmit
        => /\ last'.id = last.id
           /\ last'.status = 200
           /\ requests' = requests
           /\ PendingOf(requests', last.uid, last.plan) = {last.id} ]_vars

\* A second submit, with a note, returned the pending request, which has none,
\* while an earlier request of the same user for the same plan, processed
\* since, is on record.
C18_Witness ==
    /\ last.op = "submit" /\ last.status = 200
    /\ last.note = "please"
    /\ requests[last.id].status = "pending"
    /\ requests[last.id].note = ""
    /\ \E i \in RequestsOf(requests, last.uid, last.plan) :
          requests[i].status = "processed"

\* C19: in every reachable state, however submits (also concurrent ones of
\* one user for one plan), approvals and dismissals interleave, at most one
\* request of a (user, plan) pair has status pending.
C19_OnePendingAtMost ==
    \A u \in UserIds, plan \in Plans :
        Cardinality(PendingOf(requests, u, plan)) <= 1

\* Two submits of a user for a plan both found no pending request; one
\* created it, the other's insert was refused, and the request is pending.
C19_Witness ==
    \E p \in Callers, q \in Callers :
        /\ calls[p].pc = "done" /\ calls[p].status = 201
        /\ calls[q].pc = "done" /\ calls[q].status = 500
        /\ calls[q].uid = calls[p].uid /\ calls[q].plan = calls[p].plan
        /\ PendingOf(requests, calls[p].uid, calls[p].plan) = {calls[p].id}

\* C20: approve of a request id that does not exist fails with not found
\* (404), approve of a request whose status is processed fails with already
\* processed (400); either way no user and no request is changed, so a second
\* approve after a completed one grants nothing anew: subscription_end and the
\* usage arrays stay.
C20_ApproveRefusals ==
    [][ last'.op = "approve"
        => /\ (last'.id > Len(requests))
                 => (last'.status = 404 /\ users' = users /\ requests' = requests)
           /\ (last'.id <= Len(requests) /\ requests[last'.id].status = "processed")
                 => (last'.status = 400 /\ users' = users /\ requests' = requests) ]_vars

\* A request approved at an earlier instant was approved again and refused:
\* the user still has the end date of the first approval and the usage since.
C20_Witness ==
    /\ last.op = "approve" /\ last.status = 400
    /\ requests[last.id].processed_at # NoDate
    /\ requests[last.id].processed_at < now
    /\ LET u == users[requests[last.id].user]
       IN  /\ u.subscription_status = "active"
           /\ u.subscription_plan = requests[last.id].plan
           /\ u.subscription_end = requests[last.id].processed_at + PERIOD
           /\ u.read_books_in_period # << >>

\* Approval p ends in this step.
Ends(p) == calls[p].pc \in {"granting", "marking"} /\ calls'[p].pc = "done"

\* C21: a request is marked processed by an approval only after that
\* approval's write of the user's entitlement has gone through. An approval
\* that finds no user, or whose user.save() or reqDoc.save() fails, leaves the
\* request as it was; when an approval marks the request, the user exists and
\* is stored active for 30 days on the request's plan (or on the plan of
\* another approval for the same user that wrote after it).
C21_ProcessedOnlyAfterGrant ==
    [][ \A p \in {1, 2} :
          (Ends(p) /\ requests' # requests)
          => LET c == calls[p]
             IN  /\ c.wrote
                 /\ c.uid \in DOMAIN users
                 /\ users[c.uid].subscription_status = "active"
                 /\ users[c.uid].subscription_end
                        = users[c.uid].subscription_start + PERIOD
                 /\ \/ users[c.uid].subscription_plan = c.plan
                    \/ \E q \in {1, 2} :
                          /\ q # p
                          /\ calls[q].pc \in {"marking", "done"}
                          /\ calls[q].wrote
                          /\ calls[q].uid = c.uid
                          /\ calls[q].plan = users[c.uid].subscription_plan ]_vars

\* An approval failed at user.save() and left the request pending and the
\* user without a grant; an approval of a request of a user whose document is
\* gone was refused and left that request pending too.
C21_Witness ==
    /\ calls[1].pc = "done" /\ calls[1].status = 500 /\ ~calls[1].wrote
    /\ requests[calls[1].id].status = "pending"
    /\ users[calls[1].uid].subscription_status = "none"
    /\ calls[2].pc = "done" /\ calls[2].status = 404
    /\ calls[2].id <= Len(requests)
    /\ calls[2].uid \notin DOMAIN users
    /\ requests[calls[2].id].status = "pending"

\* C22: dismiss of a pending request sets its status to processed and
\* processed_at to now and changes nothing else of it, no other request and no
\* user; dismiss of a processed request succeeds and changes nothing,
\* processed_at included; dismiss of a request id that does not exist fails
\* with not found.
C22_DismissEffect ==
    [][ last'.op = "dismiss"
        => /\ users' = users
           /\ IF last'.id > Len(requests)
              THEN last'.status = 404 /\ requests' = requests
              ELSE /\ last'.status = 200
                   /\ Len(requests') = Len(requests)
                   /\ \A i \in 1..Len(requests) :
                         i # last'.id => requests'[i] = requests[i]
                   /\ requests'[last'.id] =
                         IF requests[last'.id].status = "pending"
                         THEN [requests[last'.id] EXCEPT !.status = "processed",
                                                         !.processed_at = now]
                         ELSE requests[last'.id] ]_vars

\* A request processed at an earlier instant was dismissed again and keeps
\* its timestamp; the user's grant from its approval is untouched.
C22_Witness ==
    /\ last.op = "dismiss" /\ last.status = 200
    /\ requests[last.id].status = "processed"
    /\ requests[last.id].processed_at # NoDate
    /\ requests[last.id].processed_at < now
    /\ requests[last.id].note = "please"
    /\ users[requests[last.id].user] = JustGranted(requests[last.id].plan,
                                                    requests[last.id].processed_at)

\* C23: a bulk grant leaves every existing listed user as the single-user
\* grant of that plan at that instant would, a bulk cancel as the single-user
\* cancel would, whether or not other listed ids match no user; users not
\* listed are left as they were and no user is created.
C23_BulkAsSingle ==
    [][ /\ last'.op = "bulkGrant"
             => /\ DOMAIN users' = DOMAIN users
                /\ \A u \in DOMAIN users :
                      users'[u] = IF InIds(last'.ids, u)
                                  THEN granted(users[u], last'.plan, now)
                                  ELSE users[u]
        /\ last'.op = "bulkCancel"
             => /\ DOMAIN users' = DOMAIN users
                /\ \A u \in DOMAIN users :
                      users'[u] = IF InIds(last'.ids, u)
                                  THEN cancelled(users[u], now)
                                  ELSE users[u] ]_vars

\* A bulk grant listed one user and an id that matches no one: the user holds
\* a fresh grant, and the user not listed still has an older grant and its usage.
C23_Witness ==
    /\ last.op = "bulkGrant"
    /\ \E i \in 1..Len(last.ids) : last.ids[i] \notin DOMAIN users
    /\ \E u \in DOMAIN users, v \in DOMAIN users :
          /\ InIds(last.ids, u) /\ ~InIds(last.ids, v)
          /\ users[u] = JustGranted(last.plan, now)
          /\ users[v].subscription_status = "active"
          /\ users[v].subscription_start < now
          /\ users[v].read_books_in_period # << >>

\* C24: the count a bulk grant or bulk cancel reports is the number of user
\* documents the operation wrote: a listed id that matches no user, or an id
\* listed twice, adds nothing to it.
C24_CountIsAffected ==
    last.op \in {"bulkGrant", "bulkCancel"}
    => last.count = Cardinality({u \in DOMAIN users : InIds(last.ids, u)})

\* C25: getPlanLimits returns maxReads 10 and maxDownloads 5 for basic, 100
\* and 25 for premium, and 0 and 0 for none and for every other value; the
\* result depends on nothing but the plan, and the call writes nothing.
C25_PlanLimits ==
    [][ last'.op = "limits"
        => /\ last'.result =
                 IF last'.plan = "basic" THEN [maxReads |-> 10, maxDownloads |-> 5]
                 ELSE IF last'.plan = "premium" THEN [maxReads |-> 100, maxDownloads |-> 25]
                 ELSE [maxReads |-> 0, maxDownloads |-> 0]
           /\ users' = users /\ requests' = requests
           /\ calls' = calls /\ now' = now ]_vars

\* The lookup of a plan that is no plan gave no allowance, while the stored
\* user is active on premium.
C25_Witness ==
    /\ last.op = "limits"
    /\ last.plan = "gold"
    /\ last.result = [maxReads |-> 0, maxDownloads |-> 0]
    /\ users[1].subscription_plan = "premium"
    /\ users[1].subscription_status = "active"

\* A comparison has been made.
Scored == last.op = "score"

\* The bigrams of a string, duplicates kept, and the number of bigrams of a
\* matched one-for-one against bigrams of b.
Bigrams(str) == [i \in 1..(Len(str) - 1) |-> SubSeq(str, i, i + 1)]

Matched(a, b) ==
    LET ba == Bigrams(a)
        bb == Bigrams(b)
    IN  Cardinality({i \in 1..Len(ba) :
            Cardinality({k \in 1..i : ba[k] = ba[i]})
                <= Cardinality({j \in 1..Len(bb) : bb[j] = ba[i]})})

\* C26: for all strings a and b, score(a, b) = score(b, a).
C26_Symmetric ==
    Scored => LET r == last.result
                  s == calculateSimilarity(last.b, last.a)
              IN  r.num * s.den = s.num * r.den

\* Two different strings of different lengths that share bigrams, the first
\* with a bigram twice, have been compared.
C26_Witness ==
    /\ Scored
    /\ Len(last.a) >= 3 /\ Len(last.b) > Len(last.a)
    /\ last.a[1] = last.a[2] /\ last.a[2] = last.a[3]
    /\ last.result.num > 0
    /\ last.result.num < last.result.den

\* C27: for strings a and b of length at least 2 that are not identical,
\* score(a, b) = 2 * I / (|bigrams(a)| + |bigrams(b)|), with duplicates kept
\* and I the number of bigrams of a matched one-for-one against bigrams of b;
\* score("night", "nacht") = 0.25, score("hello", "hello") = 1 and
\* score("a", "hello") = 0.
C27_DiceFormula ==
    Scored =>
        LET a == last.a
            b == last.b
            r == last.result
        IN  /\ (Len(a) >= 2 /\ Len(b) >= 2 /\ a # b)
                  => r.num * (Len(Bigrams(a)) + Len(Bigrams(b)))
                        = 2 * Matched(a, b) * r.den
            /\ (a = <<"n", "i", "g", "h", "t">> /\ b = <<"n", "a", "c", "h", "t">>)
                  => 4 * r.num = r.den
            /\ (a = <<"h", "e", "l", "l", "o">> /\ b = a) => r.num = r.den
            /\ (a = <<"a">> /\ b = <<"h", "e", "l", "l", "o">>) => r.num = 0

\* C28: for all strings a and b, 0 <= score(a, b) <= 1, and score(a, b) = 1
\* whenever a and b are identical.
C28_UnitInterval ==
    Scored => /\ 0 <= last.result.num
              /\ last.result.num <= last.result.den
              /\ last.a = last.b => last.result.num = last.result.den

\* C29, as stated: score(a, b) = 0 whenever a or b has fewer than 2
\* characters, the empty string and one-character strings included.
C29_ShortScoresZero ==
    (Scored /\ (Len(last.a) < 2 \/ Len(last.b) < 2)) => last.result.num = 0

\* C29, amended: score(a, b) = 0 whenever a or b has fewer than 2 characters
\* and a and b are not the same string; a string compared with itself scores
\* 1, the empty string and one-character strings included.
C29_ShortDifferentScoresZero ==
    (Scored /\ (Len(last.a) < 2 \/ Len(last.b) < 2))
    => IF last.a = last.b THEN last.result.num = last.result.den
                          ELSE last.result.num = 0

\* A one-character string compared with a longer one that begins with it
\* scored 0.
C29_Witness ==
    /\ Scored
    /\ Len(last.a) = 1 /\ Len(last.b) >= 2
    /\ last.b[1] = last.a[1]
    /\ last.result.num = 0

\* The titles of the existing books that score above 0.8 against a candidate
\* title, both in lower case, in catalog order.
Scoring(title) ==
    LET above == SelectSeq(books,
                     LAMBDA book :
                         LET s == calculateSimilarity(toLowerCase(title),
                                                      toLowerCase(book.title))
                         IN  5 * s.num > 4 * s.den)
    IN  [i \in 1..Len(above) |-> above[i].title]

\* The titles an answer names.
Named(response) == [i \in 1..Len(response.duplicates) |-> response.duplicates[i].title]

\* An upload with both files and a valid title has just been answered.
Ingesting == last'.op = "upload" /\ last'.valid

Combinations(status) ==
    {<<requests[i].user, requests[i].plan>> :
        i \in {j \in 1..Len(requests) : requests[j].status = status}}

\* The stored requests of a combination with a status.
StoredOf(c, status) ==
    {i \in 1..Len(requests) : /\ requests[i].user = c[1]
                              /\ requests[i].plan = c[2]
                              /\ requests[i].status = status}

\* The requests a listing answered with.
Listed == {last.entries[k].id : k \in 1..Len(last.entries)}

\* The requests were listed with a status filter.
ListedBy(status) == last.op = "list" /\ last.status = status

C32_ResetIdempotent ==
    [][(last'.op = "reset" /\ last'.before # "other")
          => /\ users' = users
             /\ ~last'.did
             /\ \A u \in DOMAIN users : resetPeriodIfNeeded(users'[u], now) = users'[u]
      ]_vars

\* The function was applied a second time, with no time elapsed, to a document
\* whose window the first application had restarted and whose usage it had
\* emptied.
C32_Witness ==
    /\ last.op = "reset"
    /\ last.before = "reset"
    /\ users[last.uid].period_started_at = now
    /\ users[last.uid].read_books_in_period = << >>
    /\ users[last.uid].subscription_start # NoDate

\* C33: in every state reachable from a newly registered user by any
\* interleaving of grant, bulk grant, approve, cancel, bulk cancel, sweep and
\* checkAndConsume, subscription_status = active implies that the plan is
\* basic or premium, that subscription_end is set and that subscription_end =
\* subscription_start + 30 days; checkAndConsume never answers with the
\* no-active-plan denial.
C33_ActiveIsEntitled ==
    /\ \A u \in DOMAIN users :
          users[u].subscription_status = "active"
          => /\ users[u].subscription_plan \in Plans
             /\ users[u].subscription_end # NoDate
             /\ users[u].subscription_end = users[u].subscription_start + PERIOD
    /\ last.op = "consume" => last.message # MsgNoPlan

\* Approval p stores its grant in this step.
Grants(p) == calls[p].pc = "granting" /\ calls'[p].pc = "marking"

\* Approval q has stored a grant for request id.
HasGranted(q, id) ==
    /\ calls[q].pc \in {"marking", "done"}
    /\ calls[q].id = id
    /\ calls[q].wrote

\* C34: each subscription request causes at most one grant: under any
\* interleaving of two approve calls on the same request, or of an approve and
\* a dismiss on the same request, the user's entitlement fields are written at
\* most once on behalf of the request, and never after the request has been
\* marked processed.
C34_AtMostOneGrant ==
    [][\A p \in {1, 2} :
          Grants(p) => /\ requests[calls[p].id].status = "pending"
                       /\ \A q \in {1, 2} \ {p} : ~HasGranted(q, calls[p].id)
      ]_vars

\* No value occurs twice in a sequence.
NoRepeats(arr) == \A i, j \in 1..Len(arr) : arr[i] = arr[j] => i = j

\* C36: in every reachable state, also after concurrent gate calls of one
\* user for the same content id and action type, each content id occurs at
\* most once in read_books_in_period and at most once in
\* downloaded_books_in_period.
C36_IdsOccurOnce ==
    \A u \in DOMAIN users :
        /\ NoRepeats(users[u].read_books_in_period)
        /\ NoRepeats(users[u].downloaded_books_in_period)

C37_ExpiredOnlyFromActive ==
    [][\A u \in DOMAIN users :
          /\ (users'[u].subscription_status = "expired"
                 /\ users[u].subscription_status # "expired")
             => /\ users[u].subscription_status = "active"
                /\ last'.op \in {"sweep", "cancel", "bulkCancel"}
          /\ users[u].subscription_status # "none"
             => users'[u].subscription_status # "none"
      ]_vars

====
